---------------------------- MODULE Spec2Model ----------------------------
(***************************************************************************)
(* Shoekart backend (src/backend/server.js): the cart / wishlist / order   *)
(* / product / profile / signup / login routes over the User, Product,     *)
(* Order and Profile collections.                                           *)
(*                                                                          *)
(* Every route handler is split at its awaits: the first action of a       *)
(* handler runs from the arrival of the request to the completion of its   *)
(* first store call, the following actions run from one store call to the  *)
(* next.  A handler answers in the action in which it reaches res.json.    *)
(* Several requests are in flight at once (one per slot), so the store     *)
(* calls of different requests interleave as they do on the event loop.    *)
(*                                                                          *)
(* Mongoose is modelled by what it sends to the store:                      *)
(*   - doc.save() sends the delta of the document, not the document:       *)
(*     array.push(x) is sent as $push (and $inc __v, no version test),      *)
(*     a change of array[k].field as $set "array.k.field" guarded by the   *)
(*     __v that was read, an assignment of a whole array as $set of the    *)
(*     array guarded by the __v that was read (and $inc __v).  A guard     *)
(*     that fails makes save() throw VersionError.                         *)
(*   - Model.updateOne / findByIdAndUpdate / findByIdAndDelete are one     *)
(*     atomic store operation and do not touch __v.                        *)
(*   - populate() is a second query, issued after the first has returned.  *)
(*   - a product id arrives as a string; the store holds an ObjectId.      *)
(*     Casting a string parses its hex digits in either case, and          *)
(*     ObjectId.toString() prints lower-case hex.                          *)
(***************************************************************************)
EXTENDS Integers, Sequences, FiniteSets, TLC

(* ------------------------------ bounds -------------------------------- *)
\* longest cart the model lets a push produce
MaxCart == 2
\* largest absolute value of a stored cart quantity
MaxQty == 2
\* longest wishlist the model lets a push produce
MaxWishlist == 2
\* most orders the model stores
MaxOrders == 1

(* --------------------------- value domains ---------------------------- *)
\* ObjectIds of the Product collection
ProductIds == {"p1", "p2"}

\* emails a request can carry: "u1" is registered, "nobody" is not
Emails == {"u1", "nobody"}

\* request slots: requests that can be in flight together
Slots == {1, 2}

\* a product id as a request carries it: the hex string of an ObjectId, in
\* lower case (as the server prints it) or in upper case
RequestIds == [oid : ProductIds, lower : BOOLEAN]

\* the quantity of a POST /cart body: absent (<<>>), 0 or 2
RequestQuantities == {<<>>, <<0>>, <<2>>}

\* name and price a product can have (req.body of PUT /products/:id)
ProductFields == {[name |-> "Runner", price |-> 100], [name |-> "Trainer", price |-> 200]}

VARIABLES
    products,   \* Product collection: ObjectId -> [name, price]
    users,      \* User collection: email -> [wishlist, cart]
    accounts,   \* User collection, in creation order: [name, email, password, role]
    profiles,   \* Profile collection, in creation order: [name, email, phone, address]
    orders,     \* Order collection, in creation order
    reqs,       \* per slot: the request in flight and its handler's locals
    resp,       \* the response sent by the last step (op "none": no response)
    hist        \* observer of the responses so far (one observer per specification)

vars == <<products, users, accounts, profiles, orders, reqs, resp, hist>>

Idle == [op |-> "idle"]
NoResponse == [op |-> "none"]

(* --------------------------- ObjectId casts --------------------------- *)
\* mongoose cast of a request string to an ObjectId: hex parse, any case
CastObjectId(rid) == rid.oid

\* ObjectId.prototype.toString(): lower-case hex
ObjectIdToString(oid) == [oid |-> oid, lower |-> TRUE]

(* --------------------------- sequence helpers ------------------------- *)
RECURSIVE SelectIdx(_, _, _)
\* indices k (ascending, from k0) of s with Keep[k]
SelectIdx(s, keep, k0) ==
    IF k0 > Len(s) THEN <<>>
    ELSE IF keep[k0] THEN <<s[k0]>> \o SelectIdx(s, keep, k0 + 1)
         ELSE SelectIdx(s, keep, k0 + 1)

\* Array.prototype.filter
Filter(s, Test(_)) == SelectIdx(s, [k \in 1..Len(s) |-> Test(s[k])], 1)

\* Array.prototype.map
Map(s, F(_)) == [k \in 1..Len(s) |-> F(s[k])]

\* Array.prototype.find, as an index: the first k with Test(s[k]), 0 if none
FindIndex(s, Test(_)) ==
    IF \E k \in 1..Len(s) : Test(s[k])
    THEN CHOOSE k \in 1..Len(s) : Test(s[k]) /\ \A j \in 1..(k - 1) : ~Test(s[j])
    ELSE 0

(* ------------------------------ versions ------------------------------ *)
\* $inc __v on the user document of `email`: every request in flight that
\* has read that document now holds an older __v
IncVersion(rs, email) ==
    [j \in Slots |->
        IF rs[j].op # "idle" /\ rs[j].email = email
        THEN [rs[j] EXCEPT !.versionMatches = FALSE]
        ELSE rs[j]]

Finish(rs, i) == [rs EXCEPT ![i] = Idle]

(* ------------------------------ responses ----------------------------- *)
\* a response: the route, the email of the request, the status code, whether
\* the JSON body is an array or an object, the body, and `branch`, the branch
\* of the handler that sent it (not part of the HTTP response)
Response(op, email, status, kind, body, branch) ==
    [op |-> op, email |-> email, status |-> status, kind |-> kind,
     body |-> body, branch |-> branch]

(* ------------------------- populate and cleaning ---------------------- *)
\* populate of one reference: <<the product document>>, or <<>> (null) when
\* no product has that id
PopulateRef(oid) ==
    IF oid \in DOMAIN products
    THEN <<[_id |-> oid, name |-> products[oid].name, price |-> products[oid].price]>>
    ELSE <<>>

\* .populate("cart.productId"): every item's productId replaced by its document
PopulateCart(cart) ==
    Map(cart, LAMBDA item : [productId |-> PopulateRef(item.productId),
                             quantity |-> item.quantity])

CleanItem(item) ==
    [_id |-> item.productId[1]._id, name |-> item.productId[1].name,
     price |-> item.productId[1].price, quantity |-> item.quantity]

\* CleanedCart without the filter of broken references: item.productId._id of
\* a null productId throws, and the catch block answers the empty array
CleanedCart_Unfiltered(populated) ==
    IF \E k \in 1..Len(populated) : populated[k].productId = <<>>
    THEN <<>>
    ELSE Map(populated, CleanItem)

\* cart.filter(item => item.productId).map(item => ({_id, name, price, quantity}))
CleanedCart(populated) ==
    Map(Filter(populated, LAMBDA item : item.productId # <<>>), CleanItem)

(* ------------------------------ GET /cart ----------------------------- *)
\* GetCartEmpty answering as the other routes do: 404 for an unknown user,
\* 500 on a fault, with an object body
GetCartEmpty_ErrorObject(email, branch) ==
    Response("getCart", email, IF branch = "nouser" THEN 404 ELSE 500, "object",
             [success |-> FALSE], branch)

\* the catch block and the !user branch of GET /cart/:email
GetCartEmpty(email, branch) == Response("getCart", email, 200, "array", <<>>, branch)

\* res.status(200).json(cleanedCart); `read` is the cart the handler had read
\* from the user document (not part of the HTTP response)
GetCartOk(email, cart) ==
    [op |-> "getCart", email |-> email, status |-> 200, kind |-> "array",
     body |-> CleanedCart(PopulateCart(cart)), branch |-> "ok", read |-> cart]

GetCartFind(i, email) ==
    /\ reqs[i] = Idle
    /\ UNCHANGED <<products, users, orders>>
    /\ \/ /\ resp' = GetCartEmpty(email, "fault")
          /\ UNCHANGED reqs
       \/ /\ email \notin DOMAIN users
          /\ resp' = GetCartEmpty(email, "nouser")
          /\ UNCHANGED reqs
       \/ /\ email \in DOMAIN users
          /\ reqs' = [reqs EXCEPT ![i] =
                [op |-> "getCart", pc |-> "populate", email |-> email,
                 cart |-> users[email].cart, versionMatches |-> TRUE]]
          /\ resp' = NoResponse

GetCartPopulate(i) ==
    /\ reqs[i].op = "getCart"
    /\ reqs[i].pc = "populate"
    /\ UNCHANGED <<products, users, orders>>
    /\ reqs' = Finish(reqs, i)
    /\ \/ resp' = GetCartEmpty(reqs[i].email, "fault")
       \/ resp' = GetCartOk(reqs[i].email, reqs[i].cart)

(* ------------------------------ POST /cart ---------------------------- *)
\* quantity || 1
QuantityOrOne(quantity) ==
    IF quantity = <<>> \/ quantity[1] = 0 THEN 1 ELSE quantity[1]

\* user.cart.find(item => item.productId.toString() === productId), as an index
FindCartItem(cart, productId) ==
    FindIndex(cart, LAMBDA item : ObjectIdToString(item.productId) = productId)

CartDelta_PushesTwice(cart, productId, quantity) ==
    LET k == FindCartItem(cart, productId)
    IN  IF k # 0
        THEN [kind |-> "set", index |-> k,
              quantity |-> cart[k].quantity + QuantityOrOne(quantity)]
        ELSE [kind |-> "push",
              item |-> [productId |-> CastObjectId(productId),
                        quantity |-> 2 * QuantityOrOne(quantity)]]

\* what the handler changes on its copy of the user document, as save() will
\* send it: $set of cart.k.quantity, or $push of a new item
CartDelta(cart, productId, quantity) ==
    LET k == FindCartItem(cart, productId)
    IN  IF k # 0
        THEN [kind |-> "set", index |-> k,
              quantity |-> cart[k].quantity + QuantityOrOne(quantity)]
        ELSE [kind |-> "push",
              item |-> [productId |-> CastObjectId(productId),
                        quantity |-> QuantityOrOne(quantity)]]

PostCartResponse(email, status, body, branch) ==
    Response("addToCart", email, status, "object", body, branch)

\* the model stores a quantity only within the bound
InQtyBound(q) == q <= MaxQty /\ -q <= MaxQty

PostCartFind(i, email, productId, quantity) ==
    /\ reqs[i] = Idle
    /\ UNCHANGED <<products, users, orders>>
    /\ \/ /\ resp' = PostCartResponse(email, 500, [success |-> FALSE], "fault")
          /\ UNCHANGED reqs
       \/ /\ email \notin DOMAIN users
          /\ resp' = PostCartResponse(email, 404, [success |-> FALSE], "nouser")
          /\ UNCHANGED reqs
       \/ /\ email \in DOMAIN users
          /\ LET delta == CartDelta(users[email].cart, productId, quantity)
             IN  /\ delta.kind = "set" => InQtyBound(delta.quantity)
                 /\ reqs' = [reqs EXCEPT ![i] =
                       [op |-> "addToCart", pc |-> "save", email |-> email,
                        productId |-> productId, quantity |-> quantity,
                        delta |-> delta, versionMatches |-> TRUE]]
          /\ resp' = NoResponse

\* await user.save() of POST /cart
PostCartSave(i) ==
    LET r == reqs[i]
        u == users[r.email]
    IN
    /\ r.op = "addToCart"
    /\ r.pc = "save"
    /\ UNCHANGED <<products, orders>>
    /\ \/ /\ resp' = PostCartResponse(r.email, 500, [success |-> FALSE], "fault")
          /\ reqs' = Finish(reqs, i)
          /\ UNCHANGED users
       \/ /\ r.delta.kind = "push"
          /\ Len(u.cart) < MaxCart
          /\ users' = [users EXCEPT ![r.email].cart = Append(u.cart, r.delta.item)]
          /\ reqs' = Finish(IncVersion(reqs, r.email), i)
          /\ resp' = PostCartResponse(r.email, 200, [success |-> TRUE], "ok")
       \/ /\ r.delta.kind = "set"
          /\ r.versionMatches
          /\ users' = [users EXCEPT ![r.email].cart[r.delta.index].quantity = r.delta.quantity]
          /\ reqs' = Finish(reqs, i)
          /\ resp' = PostCartResponse(r.email, 200, [success |-> TRUE], "ok")
       \/ /\ r.delta.kind = "set"
          /\ ~r.versionMatches
          /\ resp' = PostCartResponse(r.email, 500, [success |-> FALSE], "version")
          /\ reqs' = Finish(reqs, i)
          /\ UNCHANGED users

(* --------------------------- DELETE /cart/remove ---------------------- *)
DeleteCartEmpty(email, branch) ==
    Response("removeFromCart", email, 200, "array", <<>>, branch)

\* user.cart.filter(item => item.productId && item.productId._id.toString() !== productId)
KeptCart(populated, productId) ==
    Filter(populated, LAMBDA item :
        /\ item.productId # <<>>
        /\ ObjectIdToString(item.productId[1]._id) # productId)

\* what save() stores of a populated cart: the ids of the populated documents
Depopulate(populated) ==
    Map(populated, LAMBDA item : [productId |-> item.productId[1]._id,
                                  quantity |-> item.quantity])

DeleteCartFind(i, email, productId) ==
    /\ reqs[i] = Idle
    /\ UNCHANGED <<products, users, orders>>
    /\ \/ /\ resp' = DeleteCartEmpty(email, "fault")
          /\ UNCHANGED reqs
       \/ /\ email \notin DOMAIN users
          /\ resp' = DeleteCartEmpty(email, "nouser")
          /\ UNCHANGED reqs
       \/ /\ email \in DOMAIN users
          /\ reqs' = [reqs EXCEPT ![i] =
                [op |-> "removeFromCart", pc |-> "populate", email |-> email,
                 productId |-> productId, cart |-> users[email].cart,
                 versionMatches |-> TRUE]]
          /\ resp' = NoResponse

DeleteCartPopulate(i) ==
    /\ reqs[i].op = "removeFromCart"
    /\ reqs[i].pc = "populate"
    /\ UNCHANGED <<products, users, orders>>
    /\ \/ /\ resp' = DeleteCartEmpty(reqs[i].email, "fault")
          /\ reqs' = Finish(reqs, i)
       \/ /\ reqs' = [reqs EXCEPT ![i].pc = "save",
                                  ![i].cart = PopulateCart(reqs[i].cart)]
          /\ resp' = NoResponse

\* user.cart = filtered; await user.save(); res.status(200).json(cleanedCart)
DeleteCartSave(i) ==
    LET r == reqs[i]
        kept == KeptCart(r.cart, r.productId)
        done == Response("removeFromCart", r.email, 200, "array", CleanedCart(kept), "ok")
    IN
    /\ r.op = "removeFromCart"
    /\ r.pc = "save"
    /\ UNCHANGED <<products, orders>>
    /\ \/ /\ kept = r.cart
          /\ resp' = done
          /\ reqs' = Finish(reqs, i)
          /\ UNCHANGED users
       \/ /\ kept # r.cart
          /\ resp' = DeleteCartEmpty(r.email, "fault")
          /\ reqs' = Finish(reqs, i)
          /\ UNCHANGED users
       \/ /\ kept # r.cart
          /\ r.versionMatches
          /\ users' = [users EXCEPT ![r.email].cart = Depopulate(kept)]
          /\ reqs' = Finish(IncVersion(reqs, r.email), i)
          /\ resp' = done
       \/ /\ kept # r.cart
          /\ ~r.versionMatches
          /\ resp' = DeleteCartEmpty(r.email, "version")
          /\ reqs' = Finish(reqs, i)
          /\ UNCHANGED users

(* ------------------------------ wishlist ------------------------------ *)
WishlistResponse(op, email, status, body, branch) ==
    Response(op, email, status, "object", body, branch)

\* user.wishlist.includes(productId): the mongoose array compares the string
\* with each ObjectId by ==, that is with its toString()
WishlistIncludes(wishlist, productId) ==
    \E k \in 1..Len(wishlist) : ObjectIdToString(wishlist[k]) = productId

PostWishlistFind(i, email, productId) ==
    /\ reqs[i] = Idle
    /\ UNCHANGED <<products, users, orders>>
    /\ \/ /\ resp' = WishlistResponse("addToWishlist", email, 500, [success |-> FALSE], "fault")
          /\ UNCHANGED reqs
       \/ /\ email \notin DOMAIN users
          /\ resp' = WishlistResponse("addToWishlist", email, 404, [success |-> FALSE], "nouser")
          /\ UNCHANGED reqs
       \/ /\ email \in DOMAIN users
          /\ WishlistIncludes(users[email].wishlist, productId)
          /\ resp' = WishlistResponse("addToWishlist", email, 200, [success |-> TRUE], "present")
          /\ UNCHANGED reqs
       \/ /\ email \in DOMAIN users
          /\ ~WishlistIncludes(users[email].wishlist, productId)
          /\ reqs' = [reqs EXCEPT ![i] =
                [op |-> "addToWishlist", pc |-> "save", email |-> email,
                 productId |-> productId, versionMatches |-> TRUE]]
          /\ resp' = NoResponse

\* await user.save() of POST /wishlist: $push of the cast id
PostWishlistSave(i) ==
    LET r == reqs[i]
    IN
    /\ r.op = "addToWishlist"
    /\ r.pc = "save"
    /\ UNCHANGED <<products, orders>>
    /\ \/ /\ resp' = WishlistResponse("addToWishlist", r.email, 500, [success |-> FALSE], "fault")
          /\ reqs' = Finish(reqs, i)
          /\ UNCHANGED users
       \/ /\ Len(users[r.email].wishlist) < MaxWishlist
          /\ users' = [users EXCEPT ![r.email].wishlist =
                          Append(@, CastObjectId(r.productId))]
          /\ reqs' = Finish(IncVersion(reqs, r.email), i)
          /\ resp' = WishlistResponse("addToWishlist", r.email, 200, [success |-> TRUE], "ok")

\* the catch block of GET /wishlist/:email
GetWishlistError(email) ==
    WishlistResponse("getWishlist", email, 500, [success |-> FALSE], "fault")

\* .populate("wishlist"): the documents of the ids that resolve, in order
PopulateWishlist(wishlist) ==
    Map(Filter(wishlist, LAMBDA oid : oid \in DOMAIN products),
        LAMBDA oid : PopulateRef(oid)[1])

GetWishlistFind(i, email) ==
    /\ reqs[i] = Idle
    /\ UNCHANGED <<products, users, orders>>
    /\ \/ /\ resp' = GetWishlistError(email)
          /\ UNCHANGED reqs
       \/ /\ email \notin DOMAIN users
          /\ resp' = WishlistResponse("getWishlist", email, 404, [success |-> FALSE], "nouser")
          /\ UNCHANGED reqs
       \/ /\ email \in DOMAIN users
          /\ reqs' = [reqs EXCEPT ![i] =
                [op |-> "getWishlist", pc |-> "populate", email |-> email,
                 wishlist |-> users[email].wishlist, versionMatches |-> TRUE]]
          /\ resp' = NoResponse

GetWishlistPopulate(i) ==
    /\ reqs[i].op = "getWishlist"
    /\ reqs[i].pc = "populate"
    /\ UNCHANGED <<products, users, orders>>
    /\ reqs' = Finish(reqs, i)
    /\ \/ resp' = GetWishlistError(reqs[i].email)
       \/ resp' = Response("getWishlist", reqs[i].email, 200, "array",
                           PopulateWishlist(reqs[i].wishlist), "ok")

DeleteWishlistFind(i, email, productId) ==
    /\ reqs[i] = Idle
    /\ UNCHANGED <<products, users, orders>>
    /\ \/ /\ resp' = WishlistResponse("removeFromWishlist", email, 500, [success |-> FALSE], "fault")
          /\ UNCHANGED reqs
       \/ /\ email \notin DOMAIN users
          /\ resp' = WishlistResponse("removeFromWishlist", email, 404, [success |-> FALSE], "nouser")
          /\ UNCHANGED reqs
       \/ /\ email \in DOMAIN users
          /\ reqs' = [reqs EXCEPT ![i] =
                [op |-> "removeFromWishlist", pc |-> "pull", email |-> email,
                 productId |-> productId, versionMatches |-> TRUE]]
          /\ resp' = NoResponse

\* User.updateOne({ email }, { $pull: { wishlist: productId } })
PullWishlist(wishlist, productId) ==
    Filter(wishlist, LAMBDA oid : oid # CastObjectId(productId))

DeleteWishlistPull(i) ==
    LET r == reqs[i]
    IN
    /\ r.op = "removeFromWishlist"
    /\ r.pc = "pull"
    /\ UNCHANGED <<products, orders>>
    /\ reqs' = Finish(reqs, i)
    /\ \/ /\ resp' = WishlistResponse("removeFromWishlist", r.email, 500, [success |-> FALSE], "fault")
          /\ UNCHANGED users
       \/ /\ users' = [users EXCEPT ![r.email].wishlist = PullWishlist(@, r.productId)]
          /\ resp' = WishlistResponse("removeFromWishlist", r.email, 200, [success |-> TRUE], "ok")

(* ------------------------------ products ------------------------------ *)
ProductResponse(op, status, body, branch) ==
    Response(op, "", status, "object", body, branch)

\* PUT /products/:id: Product.findByIdAndUpdate(id, updateData, { new: true })
PutProduct(id, fields) ==
    /\ UNCHANGED <<users, orders, reqs>>
    /\ \/ /\ resp' = ProductResponse("updateProduct", 500, [success |-> FALSE], "fault")
          /\ UNCHANGED products
       \/ /\ id \notin DOMAIN products
          /\ resp' = ProductResponse("updateProduct", 200, [success |-> TRUE, product |-> <<>>], "noproduct")
          /\ UNCHANGED products
       \/ /\ id \in DOMAIN products
          /\ products' = [products EXCEPT ![id] = fields]
          /\ resp' = ProductResponse("updateProduct", 200, [success |-> TRUE, product |-> <<fields>>], "ok")

\* DELETE /products/:id: Product.findByIdAndDelete(req.params.id)
DeleteProduct(id) ==
    /\ UNCHANGED <<users, orders, reqs>>
    /\ \/ /\ resp' = ProductResponse("deleteProduct", 500, [success |-> FALSE], "fault")
          /\ UNCHANGED products
       \/ /\ id \notin DOMAIN products
          /\ resp' = ProductResponse("deleteProduct", 404, [success |-> FALSE], "noproduct")
          /\ UNCHANGED products
       \/ /\ id \in DOMAIN products
          /\ products' = [p \in DOMAIN products \ {id} |-> products[p]]
          /\ resp' = ProductResponse("deleteProduct", 200, [success |-> TRUE], "ok")

(* ------------------------------- orders ------------------------------- *)
\* bodies of POST /orders: the line items {productId, quantity}
OrderBodies ==
    { <<[productId |-> "p1", quantity |-> 1]>>,
      <<[productId |-> "p1", quantity |-> 2], [productId |-> "p2", quantity |-> 1]>> }

\* totalAmount of POST /orders, as the client sends it
OrderTotals == {300}

\* status of PUT /orders/:id, as the client sends it
RequestStatuses == {"Shipped", "Cancelled"}

\* ids of PUT /orders/:id: the orders that can exist
OrderIds == 1..MaxOrders

OrderResponse(op, email, status, body, branch) ==
    Response(op, email, status, "object", body, branch)

\* the catch block of POST /orders
PostOrdersError(email, branch) ==
    OrderResponse("createOrder", email, 500,
                  [success |-> FALSE, message |-> "Failed to create order"], branch)

\* what the async callback of products.map returns for a product that was found
LineItem(p, product) ==
    [productId |-> p.productId, productName |-> product.name,
     productPrice |-> product.price, quantity |-> p.quantity]

\* new Order({ userId, products: productData, totalAmount }): status defaults
NewOrder(email, productData, totalAmount) ==
    [userId |-> email, products |-> productData, totalAmount |-> totalAmount,
     status |-> "Pending"]

\* the catch block after a callback of products.map threw "Product not found";
\* `items` and `pending` are the request's line items and those that had not
\* resolved yet (not part of the HTTP response)
PostOrdersRejected(r) ==
    PostOrdersError(r.email, "unresolved") @@ [items |-> r.items, pending |-> r.pending]

PostOrdersFind(i, email, items, totalAmount) ==
    /\ reqs[i] = Idle
    /\ UNCHANGED <<products, users, orders>>
    /\ \/ /\ resp' = PostOrdersError(email, "fault")
          /\ UNCHANGED reqs
       \/ /\ email \notin DOMAIN users
          /\ resp' = OrderResponse("createOrder", email, 404,
                         [success |-> FALSE, message |-> "User not found"], "nouser")
          /\ UNCHANGED reqs
       \/ /\ email \in DOMAIN users
          /\ reqs' = [reqs EXCEPT ![i] =
                [op |-> "createOrder", pc |-> "resolve", email |-> email,
                 items |-> items, totalAmount |-> totalAmount,
                 pending |-> 1..Len(items),
                 productData |-> [k \in 1..Len(items) |-> <<>>],
                 versionMatches |-> TRUE]]
          /\ resp' = NoResponse

\* ResolveLineItem that does not throw for a product that is null: the line
\* item is kept, without a name and a price
ResolveLineItem_KeepsMissing(p) ==
    IF p.productId \in DOMAIN products
    THEN <<LineItem(p, products[p.productId])>>
    ELSE <<[productId |-> p.productId, productName |-> "", productPrice |-> 0,
            quantity |-> p.quantity]>>

\* what one callback of products.map does when its Product.findById returns:
\* "throw" when the product is null, else the line item it yields
ResolveLineItem(p) ==
    IF p.productId \in DOMAIN products
    THEN <<LineItem(p, products[p.productId])>>
    ELSE <<>>

\* one Product.findById of the Promise.all returns; the calls return in any order
PostOrdersResolve(i, k) ==
    LET r == reqs[i]
    IN
    /\ r.op = "createOrder"
    /\ r.pc = "resolve"
    /\ k \in r.pending
    /\ UNCHANGED <<products, users, orders>>
    /\ \/ /\ resp' = PostOrdersError(r.email, "fault")
          /\ reqs' = Finish(reqs, i)
       \/ /\ ResolveLineItem(r.items[k]) = <<>>
          /\ resp' = PostOrdersRejected(r)
          /\ reqs' = Finish(reqs, i)
       \/ /\ ResolveLineItem(r.items[k]) # <<>>
          /\ reqs' = [reqs EXCEPT ![i].pending = @ \ {k},
                                  ![i].productData[k] = ResolveLineItem(r.items[k])]
          /\ resp' = NoResponse

\* Promise.all has resolved: new Order(...), await order.save()
PostOrdersSave(i) ==
    LET r == reqs[i]
        order == NewOrder(r.email, [k \in 1..Len(r.items) |-> r.productData[k][1]],
                          r.totalAmount)
    IN
    /\ r.op = "createOrder"
    /\ r.pc = "resolve"
    /\ r.pending = {}
    /\ UNCHANGED <<products, users>>
    /\ reqs' = Finish(reqs, i)
    /\ \/ /\ resp' = PostOrdersError(r.email, "fault")
          /\ UNCHANGED orders
       \/ /\ Len(orders) < MaxOrders
          /\ orders' = Append(orders, order)
          /\ resp' = OrderResponse("createOrder", r.email, 200,
                         [success |-> TRUE, order |-> <<order>>], "ok")

\* UpdateStatus that writes more than the status: the total is reset
UpdateStatus_ResetsTotal(order, status) ==
    [order EXCEPT !.status = status, !.totalAmount = 0]

\* Order.findByIdAndUpdate(id, { status: req.body.status }, { new: true })
UpdateStatus(order, status) == [order EXCEPT !.status = status]

PutOrder(id, status) ==
    /\ UNCHANGED <<products, users, reqs>>
    /\ \/ /\ resp' = OrderResponse("updateStatus", "", 500,
                         [success |-> FALSE, message |-> "Failed to update order"], "fault")
          /\ UNCHANGED orders
       \/ /\ id \notin 1..Len(orders)
          /\ resp' = OrderResponse("updateStatus", "", 200,
                         [success |-> TRUE, order |-> <<>>], "noorder")
          /\ UNCHANGED orders
       \/ /\ id \in 1..Len(orders)
          /\ orders' = [orders EXCEPT ![id] = UpdateStatus(@, status)]
          /\ resp' = OrderResponse("updateStatus", "", 200,
                         [success |-> TRUE, order |-> <<orders'[id]>>], "ok")

(* ------------------------------ accounts ------------------------------ *)
\* bcrypt.hash(password, 10): the stored value is not the password, and
\* bcrypt.compare(password, hash) holds for the password that was hashed
BcryptHash(password) == <<"bcrypt", password>>
BcryptCompare(password, hash) == hash = BcryptHash(password)

\* the account of the registered user, as POST /signup stores it
InitialAccounts ==
    <<[name |-> "Asha", email |-> "u1", password |-> BcryptHash("pw1"), role |-> "user"]>>

(* ------------------------------ observer ------------------------------ *)
\* The observer follows the responses of consecutive requests: a successful
\* POST /cart for an existing product the cart has no item of ("first"), then
\* a successful POST /cart with the same productId ("second"), then a GET
\* /cart that answers from the store ("read").  Any other response resets it.
NoHistory == [stage |-> "none"]

\* the quantities of the data model: absent, or at least 1
IsCartQuantity(quantity) == quantity = <<>> \/ quantity[1] >= 1

Observe(h) ==
    LET r == reqs[1]
        added == /\ resp'.op = "addToCart"
                 /\ resp'.status = 200
                 /\ IsCartQuantity(r.quantity)
    IN  IF resp' = NoResponse THEN h
        ELSE IF added /\ h.stage = "first" /\ h.productId = r.productId
        THEN [stage |-> "second", productId |-> h.productId, q1 |-> h.q1,
              q2 |-> r.quantity]
        ELSE IF /\ added
                /\ CastObjectId(r.productId) \in DOMAIN products
                /\ \A k \in 1..Len(users[r.email].cart) :
                      users[r.email].cart[k].productId # CastObjectId(r.productId)
        THEN [stage |-> "first", productId |-> r.productId, q1 |-> r.quantity]
        ELSE IF resp'.op = "getCart" /\ resp'.branch = "ok" /\ h.stage = "second"
        THEN [h EXCEPT !.stage = "read"]
        ELSE NoHistory

\* the cart, wishlist, product and order routes read and write nothing of the
\* accounts and the profiles
AccountsUntouched == UNCHANGED <<accounts, profiles>>

\* the observer watches the step
Observed == hist' = Observe(hist) /\ AccountsUntouched

\* the observer is off
Unobserved == UNCHANGED hist /\ AccountsUntouched

(* --------------------------- specifications --------------------------- *)
\* one registered user with an empty cart and wishlist, two products, no order
Init ==
    /\ products = [p \in ProductIds |-> [name |-> "Runner", price |-> 100]]
    /\ users = [e \in {"u1"} |-> [wishlist |-> <<>>, cart |-> <<>>]]
    /\ accounts = InitialAccounts
    /\ profiles = <<>>
    /\ orders = <<>>
    /\ reqs = [i \in Slots |-> Idle]
    /\ resp = NoResponse
    /\ hist = NoHistory

\* requests are served one at a time
Sequential == {1}

CartNext ==
    \/ \E i \in Sequential, email \in Emails : GetCartFind(i, email) /\ Observed
    \/ \E i \in Sequential : GetCartPopulate(i) /\ Observed
    \/ \E i \in Sequential, email \in Emails, productId \in RequestIds,
          quantity \in RequestQuantities : PostCartFind(i, email, productId, quantity) /\ Observed
    \/ \E i \in Sequential : PostCartSave(i) /\ Observed
    \/ \E i \in Sequential, email \in Emails, productId \in RequestIds :
          DeleteCartFind(i, email, productId) /\ Observed
    \/ \E i \in Sequential : DeleteCartPopulate(i) /\ Observed
    \/ \E i \in Sequential : DeleteCartSave(i) /\ Observed
    \/ \E id \in ProductIds, fields \in ProductFields : PutProduct(id, fields) /\ Observed
    \/ \E id \in ProductIds : DeleteProduct(id) /\ Observed

\* the cart routes, one request at a time, while products are updated and deleted
Spec == Init /\ [][CartNext]_vars

\* the inputs of the requests that run in flight together: ids as the server
\* prints them, the quantity absent or 2
CanonicalIds == {rid \in RequestIds : rid.lower}
ConcurrentQuantities == {<<>>, <<2>>}

CartWritesNext ==
    \/ \E i \in Slots, email \in Emails, productId \in CanonicalIds,
          quantity \in ConcurrentQuantities : PostCartFind(i, email, productId, quantity) /\ Unobserved
    \/ \E i \in Slots : PostCartSave(i) /\ Unobserved
    \/ \E i \in Slots, email \in Emails, productId \in CanonicalIds :
          DeleteCartFind(i, email, productId) /\ Unobserved
    \/ \E i \in Slots : DeleteCartPopulate(i) /\ Unobserved
    \/ \E i \in Slots : DeleteCartSave(i) /\ Unobserved

\* POST /cart and DELETE /cart/remove requests in flight together
SpecCartWrites == Init /\ [][CartWritesNext]_vars

WishlistNext ==
    \/ \E i \in Slots, email \in Emails, productId \in CanonicalIds :
          PostWishlistFind(i, email, productId) /\ Unobserved
    \/ \E i \in Slots : PostWishlistSave(i) /\ Unobserved
    \/ \E i \in Slots, email \in Emails : GetWishlistFind(i, email) /\ Unobserved
    \/ \E i \in Slots : GetWishlistPopulate(i) /\ Unobserved
    \/ \E i \in Slots, email \in Emails, productId \in CanonicalIds :
          DeleteWishlistFind(i, email, productId) /\ Unobserved
    \/ \E i \in Slots : DeleteWishlistPull(i) /\ Unobserved
    \/ \E id \in ProductIds : DeleteProduct(id) /\ Unobserved

\* the wishlist routes, requests in flight together, while products are deleted
SpecWishlist == Init /\ [][WishlistNext]_vars

OrdersNext ==
    \/ \E i \in Sequential, email \in Emails, items \in OrderBodies,
          totalAmount \in OrderTotals : PostOrdersFind(i, email, items, totalAmount) /\ Unobserved
    \/ \E i \in Sequential, k \in 1..2 : PostOrdersResolve(i, k) /\ Unobserved
    \/ \E i \in Sequential : PostOrdersSave(i) /\ Unobserved
    \/ \E id \in OrderIds, status \in RequestStatuses : PutOrder(id, status) /\ Unobserved
    \/ \E id \in ProductIds, fields \in ProductFields : PutProduct(id, fields) /\ Unobserved
    \/ \E id \in ProductIds : DeleteProduct(id) /\ Unobserved

\* the order routes while products are updated and deleted
SpecOrders == Init /\ [][OrdersNext]_vars

(* ------------------------------- claims ------------------------------- *)
\* number of positions of s that satisfy Test
Count(s, Test(_)) == Cardinality({k \in 1..Len(s) : Test(s[k])})

\* C1: in every reachable state each user's stored cart holds at most one
\* item per product reference, whatever POST /cart and DELETE /cart/remove
\* requests ran and however they interleaved.
CartOneEntryPerProduct ==
    \A email \in DOMAIN users :
        \A j, k \in 1..Len(users[email].cart) :
            j # k => users[email].cart[j].productId # users[email].cart[k].productId

\* C2: a GET /cart that answers from the store answers 200 with an array
\* that has no entry for a reference that does not resolve (a deleted
\* product), and has, for every stored item whose product exists, an entry
\* with the product's current name and price and the stored quantity.
GetCartOmitsDangling ==
    (resp.op = "getCart" /\ resp.branch = "ok") =>
        /\ resp.status = 200
        /\ resp.kind = "array"
        /\ resp.read = users[resp.email].cart
        /\ \A k \in 1..Len(resp.body) :
              /\ resp.body[k]._id \in DOMAIN products
              /\ resp.body[k].name = products[resp.body[k]._id].name
              /\ resp.body[k].price = products[resp.body[k]._id].price
        /\ \A oid \in ProductIds, q \in (0 - MaxQty)..MaxQty :
              Count(resp.body, LAMBDA e : e._id = oid /\ e.quantity = q)
                = IF oid \in DOMAIN products
                  THEN Count(users[resp.email].cart,
                             LAMBDA item : item.productId = oid /\ item.quantity = q)
                  ELSE 0

\* C2 witness: a cart read answered while the stored cart references a
\* deleted product and a product that was renamed after it was added.
GetCartAfterDelete ==
    /\ resp.op = "getCart"
    /\ resp.branch = "ok"
    /\ \E k \in 1..Len(users["u1"].cart) :
          users["u1"].cart[k].productId \notin DOMAIN products
    /\ \E k \in 1..Len(resp.body) : resp.body[k].name = "Trainer"

\* C8: every GET /cart answers 200 with an array; for an unknown user, for a
\* user with an empty cart and when the store fails, the array is empty.
GetCartAlwaysArray ==
    resp.op = "getCart" =>
        /\ resp.status = 200
        /\ resp.kind = "array"
        /\ resp.branch \in {"fault", "nouser"} => resp.body = <<>>
        /\ (resp.branch = "ok" /\ resp.read = <<>>) => resp.body = <<>>

\* C8 witness: the store failed during a cart read of a user whose cart is
\* not empty.
GetCartStoreFailed ==
    /\ resp.op = "getCart"
    /\ resp.branch = "fault"
    /\ resp.email = "u1"
    /\ users["u1"].cart # <<>>

\* C9: when the store fails during GET /wishlist, the answer is an empty
\* collection with status 200, not a server-fault response.
GetWishlistDegradesToEmpty ==
    (resp.op = "getWishlist" /\ resp.branch = "fault") =>
        /\ resp.status = 200
        /\ resp.kind = "array"
        /\ resp.body = <<>>

\* C7: in every reachable state no user's stored wishlist holds a product
\* reference twice, whatever POST /wishlist and DELETE /wishlist/remove
\* requests ran and however they interleaved.
WishlistNoDuplicates ==
    \A email \in DOMAIN users :
        \A j, k \in 1..Len(users[email].wishlist) :
            j # k => users[email].wishlist[j] # users[email].wishlist[k]

\* C5: a DELETE /cart/remove or DELETE /wishlist/remove whose product is not
\* in the user's stored collection answers 200 and leaves the user's stored
\* cart and wishlist as they were, dangling items included.
RemoveNonMemberIsNoOp ==
    [][\A i \in Slots :
          LET r == reqs[i]
          IN  (/\ r.op \in {"removeFromCart", "removeFromWishlist"}
               /\ reqs'[i] = Idle
               /\ resp'.branch = "ok"
               /\ r.op = "removeFromCart" =>
                     \A k \in 1..Len(users[r.email].cart) :
                        users[r.email].cart[k].productId # CastObjectId(r.productId)
               /\ r.op = "removeFromWishlist" =>
                     \A k \in 1..Len(users[r.email].wishlist) :
                        users[r.email].wishlist[k] # CastObjectId(r.productId))
              => (users' = users /\ resp'.status = 200)]_vars

\* the quantity a POST /cart asks for, an absent quantity counting as 1
Requested(quantity) == IF quantity = <<>> THEN 1 ELSE quantity[1]

\* C6: after addToCart(U, P, q1) and then addToCart(U, P, q2) on a cart that
\* had no item of the existing product P, getCart(U) returns exactly one
\* entry for P, and its quantity is q1 + q2 (an absent quantity counts as 1).
AddTwiceThenReadSums ==
    hist.stage = "read" =>
        LET P == CastObjectId(hist.productId)
            entries == {k \in 1..Len(resp.body) : resp.body[k]._id = P}
        IN  /\ Cardinality(entries) = 1
            /\ \A k \in entries :
                  resp.body[k].quantity = Requested(hist.q1) + Requested(hist.q2)

\* C10: an order creation that fails because a line item's product does not
\* resolve is answered with a NotFound status, not the status of a store fault.
UnresolvedItemIsNotFound ==
    (resp.op = "createOrder" /\ resp.branch = "unresolved") =>
        /\ resp.status = 404
        /\ resp.status # PostOrdersError(resp.email, "fault").status

\* C3: order creation is all-or-nothing.  A request passes a line item only
\* when its product resolves at that moment, and then holds its snapshot; a
\* request that ends with a line item not yet resolved fails and leaves the
\* Order store unchanged; an order is stored only by a request all of whose
\* line items resolved, and it holds every one of them, in order.
OrderAllOrNothing ==
    [][\A i \in Slots :
          LET r == reqs[i]
          IN  r.op = "createOrder" =>
                /\ \A k \in r.pending :
                      (reqs'[i] # Idle /\ k \notin reqs'[i].pending) =>
                          /\ r.items[k].productId \in DOMAIN products
                          /\ reqs'[i].productData[k] =
                               <<[productId |-> r.items[k].productId,
                                  productName |-> products[r.items[k].productId].name,
                                  productPrice |-> products[r.items[k].productId].price,
                                  quantity |-> r.items[k].quantity]>>
                /\ (reqs'[i] = Idle /\ r.pending # {}) =>
                      (orders' = orders /\ resp'.status # 200)
                /\ (reqs'[i] = Idle /\ resp'.status # 200) => orders' = orders
                /\ Len(orders') > Len(orders) =>
                      /\ r.pending = {}
                      /\ Len(orders') = Len(orders) + 1
                      /\ Len(orders'[Len(orders')].products) = Len(r.items)
                      /\ \A k \in 1..Len(r.items) :
                            orders'[Len(orders')].products[k] = r.productData[k][1]]_vars

\* C3 witness: a creation with two line items failed on the one that does
\* not resolve after the other one had resolved.
OrderFailedOnOneItem ==
    /\ resp.op = "createOrder"
    /\ resp.branch = "unresolved"
    /\ Len(resp.items) = 2
    /\ Cardinality(resp.pending) = 1

\* C4: a stored order keeps its products (reference, snapshotted name and
\* price, quantity), its totalAmount and its owner under every later step;
\* only its status changes.
OrderSnapshotImmutable ==
    [][\A k \in 1..Len(orders) :
          /\ k <= Len(orders')
          /\ orders'[k].products = orders[k].products
          /\ orders'[k].totalAmount = orders[k].totalAmount
          /\ orders'[k].userId = orders[k].userId]_vars

\* C4 witness: an order whose status was updated, one of whose products has
\* since been deleted and another changed.
OrderOutlivesProducts ==
    \E k \in 1..Len(orders) :
        /\ orders[k].status = "Shipped"
        /\ \E a, b \in 1..Len(orders[k].products) :
              /\ orders[k].products[a].productId \notin DOMAIN products
              /\ orders[k].products[b].productId \in DOMAIN products
              /\ orders[k].products[b].productName
                    # products[orders[k].products[b].productId].name

\* C11: in every reachable state the status of every stored order is one of
\* Pending, Shipped, Delivered, whatever status PUT /orders/:id was sent.
OrderStatusInEnum ==
    \A k \in 1..Len(orders) : orders[k].status \in {"Pending", "Shipped", "Delivered"}

(* ----------------------- POST /cart, any quantity ---------------------- *)
\* the quantities a request body can carry: absent, zero, positive, negative
AnyQuantities == {<<>>, <<0>>, <<1>>, <<-1>>}

CartQuantitiesNext ==
    \/ \E i \in Sequential, email \in Emails, productId \in CanonicalIds,
          quantity \in AnyQuantities : PostCartFind(i, email, productId, quantity) /\ Unobserved
    \/ \E i \in Sequential : PostCartSave(i) /\ Unobserved

\* POST /cart requests with every kind of quantity, one at a time
SpecCartQuantities == Init /\ [][CartQuantitiesNext]_vars

\* C12: in every reachable state every stored cart item has a quantity of at
\* least 1, whatever quantity (absent, zero, negative, positive) POST /cart
\* was sent.
CartQuantityAtLeastOne ==
    \A email \in DOMAIN users :
        \A k \in 1..Len(users[email].cart) : users[email].cart[k].quantity >= 1

\* C17: a request that names a record which does not exist (PUT /orders/:id
\* and PUT /products/:id with an unknown id; DELETE /cart/remove, DELETE
\* /wishlist/remove, POST /cart and POST /wishlist with an unknown email) is
\* answered 404 and changes nothing in the store.
MissingRecordIsNotFound ==
    [][(/\ resp'.op \in {"updateStatus", "updateProduct", "removeFromCart",
                         "removeFromWishlist", "addToCart", "addToWishlist"}
        /\ resp'.branch \in {"noorder", "noproduct", "nouser"})
       => /\ resp'.status = 404
          /\ UNCHANGED <<products, users, orders>>]_vars

(* ----------------------------- GET /products -------------------------- *)
\* Texts that the route converts (numbers, the color pattern) are sequences
\* of characters; a query parameter is <<>> when absent and <<text>> when
\* present.
NoText == <<>>

\* products of the catalog with the fields the route filters on; rating is
\* <<>> when null
CatalogProducts ==
    { [name |-> "A", price |-> 100, category |-> "women", size |-> "7", brand |-> "Nike",
       color |-> <<"r", "e", "d">>, rating |-> <<4>>],
      [name |-> "B", price |-> 200, category |-> "women", size |-> "", brand |-> "Puma",
       color |-> <<"R", "e", "d", "(", "m", ")">>, rating |-> <<>>],
      [name |-> "C", price |-> 150, category |-> "men", size |-> "7", brand |-> "Nike",
       color |-> <<"r", "e", "x">>, rating |-> <<2>>] }

\* req.query of GET /products
RequestQueries ==
    [category : {<<>>, <<"women">>},
     size     : {<<>>, <<"">>, <<"7">>},
     brand    : {<<>>, <<"Nike">>},
     color    : {<<>>, <<<<"R", "E", "D">>>>, <<<<"r", "e", ".">>>>,
                 <<<<"r", "e", "d", "(", "m", ")">>>>},
     rating   : {<<>>, <<<<"3">>>>},
     priceMin : {<<>>, <<<<"1", "5", "0">>>>},
     priceMax : {<<>>, <<<<"1", "5", "0">>>>, <<<<"0">>>>}]

\* values of the filter form of the women's page; an empty input is ""
FormInputs ==
    [size     : {"", "7"},
     brand    : {"", "Puma"},
     color    : {NoText, <<"r", "e", "d">>},
     rating   : {NoText, <<"3">>},
     priceMin : {NoText},
     priceMax : {NoText, <<"1", "5", "0">>}]

\* the order in which Product.find returns the documents
ProductOrder == <<"p1", "p2">>

\* `if (param)` on a query parameter: present and not the empty string
Truthy(param) == param # <<>> /\ param[1] # ""

\* the same test on a parameter that is a sequence of characters
TruthyText(param) == param # <<>> /\ param[1] # NoText

DigitValue ==
    [c \in {"0", "1", "2", "3", "4", "5", "6", "7", "8", "9"} |->
        CASE c = "0" -> 0 [] c = "1" -> 1 [] c = "2" -> 2 [] c = "3" -> 3
          [] c = "4" -> 4 [] c = "5" -> 5 [] c = "6" -> 6 [] c = "7" -> 7
          [] c = "8" -> 8 [] c = "9" -> 9]

RECURSIVE Number(_)
\* Number(text) of a text of decimal digits
Number(text) ==
    IF text = NoText THEN 0
    ELSE 10 * Number(SubSeq(text, 1, Len(text) - 1)) + DigitValue[text[Len(text)]]

\* case folding of the flag "i"
ToLower(c) ==
    CASE c = "R" -> "r" [] c = "E" -> "e" [] c = "D" -> "d" [] c = "M" -> "m"
      [] OTHER -> c

\* new RegExp(`^${color}$`, "i").test(text) for a color made of letters, "."
\* and balanced "(" ")": a group matches what its content matches, "."
\* matches any one character, a letter matches itself in either case
RegExpTest(color, text) ==
    LET IsParen(c) == c \in {"(", ")"}
        atoms == SelectSeq(color, LAMBDA c : ~IsParen(c))
    IN  /\ Len(atoms) = Len(text)
        /\ \A k \in 1..Len(atoms) :
              atoms[k] = "." \/ ToLower(atoms[k]) = ToLower(text[k])

\* the filter object the route builds from req.query
ProductFilter(query) ==
    [category |-> IF Truthy(query.category) THEN query.category ELSE <<>>,
     size     |-> IF Truthy(query.size) THEN query.size ELSE <<>>,
     brand    |-> IF Truthy(query.brand) THEN query.brand ELSE <<>>,
     color    |-> IF TruthyText(query.color) THEN <<[regex |-> query.color[1]]>> ELSE <<>>,
     rating   |-> IF TruthyText(query.rating) THEN <<[gte |-> Number(query.rating[1])]>> ELSE <<>>,
     price    |-> IF TruthyText(query.priceMin) \/ TruthyText(query.priceMax)
                  THEN <<[gte |-> IF TruthyText(query.priceMin)
                                  THEN <<Number(query.priceMin[1])>> ELSE <<>>,
                          lte |-> IF TruthyText(query.priceMax)
                                  THEN <<Number(query.priceMax[1])>> ELSE <<>>]>>
                  ELSE <<>>]

\* the documents Product.find(filter) selects: every field of the filter
\* must match; $gte on a null rating matches nothing
MatchesFilter(p, filter) ==
    /\ filter.category # <<>> => p.category = filter.category[1]
    /\ filter.size # <<>> => p.size = filter.size[1]
    /\ filter.brand # <<>> => p.brand = filter.brand[1]
    /\ filter.color # <<>> => RegExpTest(filter.color[1].regex, p.color)
    /\ filter.rating # <<>> => p.rating # <<>> /\ p.rating[1] >= filter.rating[1].gte
    /\ filter.price # <<>> =>
          /\ filter.price[1].gte # <<>> => p.price >= filter.price[1].gte[1]
          /\ filter.price[1].lte # <<>> => p.price <= filter.price[1].lte[1]

FindProducts(filter) ==
    LET Selected(id) == id \in DOMAIN products /\ MatchesFilter(products[id], filter)
    IN  Filter(ProductOrder, Selected)

\* GET /products, the first request after the start: the ids of the products
\* sent, with the query
GetProducts(query) ==
    /\ resp = NoResponse
    /\ UNCHANGED <<products, users, orders, reqs>>
    /\ \/ resp' = ProductResponse("listProducts", 500, [success |-> FALSE], "fault")
                     @@ [query |-> query]
       \/ resp' = [op |-> "listProducts", email |-> "", status |-> 200, kind |-> "array",
                   body |-> FindProducts(ProductFilter(query)), branch |-> "ok",
                   query |-> query]

\* applyFilters() of the women's page: the query string it builds
ApplyFilters(inputs) ==
    [category |-> <<"women">>,
     priceMin |-> IF inputs.priceMin # NoText THEN <<inputs.priceMin>> ELSE <<>>,
     priceMax |-> IF inputs.priceMax # NoText THEN <<inputs.priceMax>> ELSE <<>>,
     size     |-> IF inputs.size # "" THEN <<inputs.size>> ELSE <<>>,
     rating   |-> IF inputs.rating # NoText THEN <<inputs.rating>> ELSE <<>>,
     brand    |-> IF inputs.brand # "" THEN <<inputs.brand>> ELSE <<>>,
     color    |-> IF inputs.color # NoText THEN <<inputs.color>> ELSE <<>>]

\* a catalog of at most two of the products
InitCatalog ==
    /\ \E ids \in SUBSET ProductIds : products \in [ids -> CatalogProducts]
    /\ users = [e \in {"u1"} |-> [wishlist |-> <<>>, cart |-> <<>>]]
    /\ accounts = InitialAccounts
    /\ profiles = <<>>
    /\ orders = <<>>
    /\ reqs = [i \in Slots |-> Idle]
    /\ resp = NoResponse
    /\ hist = NoHistory

ProductListNext ==
    \/ \E query \in RequestQueries : GetProducts(query) /\ Unobserved
    \/ \E inputs \in FormInputs : GetProducts(ApplyFilters(inputs)) /\ Unobserved

\* GET /products on every catalog, called directly and through the filter form
SpecProductList == InitCatalog /\ [][ProductListNext]_vars

\* a filter is provided when the parameter is present and not empty
Provided(param) == param # <<>> /\ param[1] # ""
ProvidedText(param) == param # <<>> /\ param[1] # NoText

\* the two colors are the same text up to the case of the letters
SameColor(a, b) ==
    Len(a) = Len(b) /\ \A k \in 1..Len(a) : ToLower(a[k]) = ToLower(b[k])

\* the product satisfies every provided predicate of the query
Satisfies(p, query) ==
    /\ Provided(query.category) => p.category = query.category[1]
    /\ Provided(query.size) => p.size = query.size[1]
    /\ Provided(query.brand) => p.brand = query.brand[1]
    /\ ProvidedText(query.color) => SameColor(p.color, query.color[1])
    /\ ProvidedText(query.rating) => p.rating # <<>> /\ p.rating[1] >= Number(query.rating[1])
    /\ ProvidedText(query.priceMin) => p.price >= Number(query.priceMin[1])
    /\ ProvidedText(query.priceMax) => p.price <= Number(query.priceMax[1])

\* C16: for every catalog and every query, GET /products sends exactly the
\* products that satisfy all provided predicates: exact match on category,
\* size and brand, case-insensitive exact match on color, rating at least
\* the threshold, priceMin <= price <= priceMax.
ProductListIsExact ==
    (resp.op = "listProducts" /\ resp.branch = "ok") =>
        \A id \in ProductIds :
            (\E k \in 1..Len(resp.body) : resp.body[k] = id)
                <=> (id \in DOMAIN products /\ Satisfies(products[id], resp.query))

(* ------------------------------- profiles ----------------------------- *)
\* index of the first document of the collection with the email (findOne),
\* 0 when there is none
FindOneByEmail(docs, email) ==
    IF \E k \in 1..Len(docs) : docs[k].email = email
    THEN CHOOSE k \in 1..Len(docs) :
            /\ docs[k].email = email
            /\ \A j \in 1..(k - 1) : docs[j].email # email
    ELSE 0

\* req.body of PUT /api/profile/:email
ProfileBodies == {[name |-> "Bela", phone |-> "555", address |-> "Pune"]}

ProfileError(op, email, branch) ==
    Response(op, email, 500, "object", [success |-> FALSE, message |-> "Server error"], branch)

\* user?.name || "New User"
NameOrPlaceholder(email) ==
    LET k == FindOneByEmail(accounts, email)
    IN  IF k = 0 \/ accounts[k].name = "" THEN "New User" ELSE accounts[k].name

\* GET /api/profile/:email up to the return of Profile.findOne({ email })
GetProfileFind(i, email) ==
    /\ reqs[i] = Idle
    /\ UNCHANGED <<products, users, accounts, profiles, orders, hist>>
    /\ \/ /\ resp' = ProfileError("getProfile", email, "fault")
          /\ UNCHANGED reqs
       \/ /\ LET k == FindOneByEmail(profiles, email)
             IN  reqs' = [reqs EXCEPT ![i] =
                    [op |-> "getProfile", pc |-> "user", email |-> email,
                     profile |-> IF k = 0 THEN <<>> ELSE <<profiles[k]>>]]
          /\ resp' = NoResponse

\* await User.findOne({ email }), then the answer or the new Profile
GetProfileUser(i) ==
    LET r == reqs[i]
    IN
    /\ r.op = "getProfile"
    /\ r.pc = "user"
    /\ UNCHANGED <<products, users, accounts, profiles, orders, hist>>
    /\ \/ /\ resp' = ProfileError("getProfile", r.email, "fault")
          /\ reqs' = Finish(reqs, i)
       \/ /\ r.profile # <<>>
          /\ resp' = Response("getProfile", r.email, 200, "object",
                              [success |-> TRUE, profile |-> r.profile[1]], "found")
          /\ reqs' = Finish(reqs, i)
       \/ /\ r.profile = <<>>
          /\ reqs' = [reqs EXCEPT ![i] =
                [r EXCEPT !.pc = "save",
                          !.profile = <<[name |-> NameOrPlaceholder(r.email), email |-> r.email,
                                         phone |-> "", address |-> ""]>>]]
          /\ resp' = NoResponse

\* await profile.save() of the new Profile
GetProfileSave(i) ==
    LET r == reqs[i]
    IN
    /\ r.op = "getProfile"
    /\ r.pc = "save"
    /\ UNCHANGED <<products, users, accounts, orders, hist>>
    /\ reqs' = Finish(reqs, i)
    /\ \/ /\ resp' = ProfileError("getProfile", r.email, "fault")
          /\ UNCHANGED profiles
       \/ /\ profiles' = Append(profiles, r.profile[1])
          /\ resp' = Response("getProfile", r.email, 200, "object",
                              [success |-> TRUE, profile |-> r.profile[1]], "created")

\* PUT /api/profile/:email up to the return of Profile.findOne({ email })
PutProfileFind(i, email, body) ==
    /\ reqs[i] = Idle
    /\ UNCHANGED <<products, users, accounts, profiles, orders, hist>>
    /\ \/ /\ resp' = ProfileError("putProfile", email, "fault")
          /\ UNCHANGED reqs
       \/ /\ reqs' = [reqs EXCEPT ![i] =
                [op |-> "putProfile", pc |-> "save", email |-> email, body |-> body,
                 index |-> FindOneByEmail(profiles, email)]]
          /\ resp' = NoResponse

\* the profile the handler saves: a new one, or the one it found with name,
\* phone and address overwritten
PutProfileDocument(r) ==
    [name |-> r.body.name, email |-> r.email, phone |-> r.body.phone,
     address |-> r.body.address]

\* await profile.save() of PUT /api/profile/:email
PutProfileSave(i) ==
    LET r == reqs[i]
    IN
    /\ r.op = "putProfile"
    /\ r.pc = "save"
    /\ UNCHANGED <<products, users, accounts, orders, hist>>
    /\ \/ /\ resp' = ProfileError("putProfile", r.email, "fault")
          /\ reqs' = Finish(reqs, i)
          /\ UNCHANGED profiles
       \/ /\ profiles' = IF r.index = 0 THEN Append(profiles, PutProfileDocument(r))
                         ELSE [profiles EXCEPT ![r.index] = PutProfileDocument(r)]
          /\ reqs' = [reqs EXCEPT ![i] = [r EXCEPT !.pc = "sync"]]
          /\ resp' = NoResponse

\* await User.updateOne({ email }, { $set: { name } }), then the answer
PutProfileSync(i) ==
    LET r == reqs[i]
        k == FindOneByEmail(accounts, r.email)
    IN
    /\ r.op = "putProfile"
    /\ r.pc = "sync"
    /\ UNCHANGED <<products, users, profiles, orders, hist>>
    /\ reqs' = Finish(reqs, i)
    /\ \/ /\ resp' = ProfileError("putProfile", r.email, "syncfault")
          /\ UNCHANGED accounts
       \/ /\ accounts' = IF k = 0 THEN accounts
                         ELSE [accounts EXCEPT ![k].name = r.body.name]
          /\ resp' = Response("putProfile", r.email, 200, "object",
                              [success |-> TRUE, message |-> "Profile updated successfully",
                               profile |-> PutProfileDocument(r)], "ok")

ProfileNext ==
    \/ \E i \in Slots, email \in Emails : GetProfileFind(i, email)
    \/ \E i \in Slots : GetProfileUser(i)
    \/ \E i \in Slots : GetProfileSave(i)
    \/ \E i \in Slots, email \in Emails, body \in ProfileBodies : PutProfileFind(i, email, body)
    \/ \E i \in Slots : PutProfileSave(i)
    \/ \E i \in Slots : PutProfileSync(i)

\* the profile routes, requests in flight together
SpecProfile == Init /\ [][ProfileNext]_vars

\* C13: in every reachable state at most one Profile exists per email, however
\* the GET and PUT requests for the email interleaved, and a profile that GET
\* created carries the name of the User (or "New User") and an empty phone
\* and address.
ProfileOnePerEmail ==
    /\ \A j, k \in 1..Len(profiles) : profiles[j].email = profiles[k].email => j = k
    /\ (resp.op = "getProfile" /\ resp.branch = "created") =>
          /\ resp.body.profile.name \in {"Asha", "Bela", "New User"}
          /\ resp.body.profile.phone = ""
          /\ resp.body.profile.address = ""

\* C18: when the write of the name into the User fails after PUT
\* /api/profile/:email saved the profile, the profile stays stored and the
\* request is still answered as a success.
ProfileSyncIsBestEffort ==
    (resp.op = "putProfile" /\ resp.branch = "syncfault") =>
        /\ \E k \in 1..Len(profiles) : profiles[k].email = resp.email
        /\ resp.status = 200
        /\ resp.body.success

(* --------------------------- POST /signup ----------------------------- *)
\* req.body of POST /signup
SignupBodies ==
    [name : {"Asha"}, password : {"pw1"}, confirm : {"pw1", "pw2"}, role : {"user", "admin"}]

\* req.body of POST /login, without the email
LoginBodies == [password : {"pw1", "pw2"}, role : {"user", "admin"}]

AuthResponse(op, email, status, body, branch) ==
    Response(op, email, status, "object", body, branch)

AuthError(op, email, branch) ==
    AuthResponse(op, email, 500, [success |-> FALSE, message |-> "Server error"], branch)

EmailIndexAllows_NotUnique(docs, email) == TRUE

\* the unique index of UserSchema.email: an insert is accepted only when no
\* stored document has the email
EmailIndexAllows(docs, email) == \A k \in 1..Len(docs) : docs[k].email # email

\* POST /signup up to the return of User.findOne({ email }) and the hashing of
\* the password, which reads and writes nothing of the store
SignupFind(i, email, body) ==
    /\ reqs[i] = Idle
    /\ UNCHANGED <<products, users, accounts, profiles, orders>>
    /\ \/ /\ body.password # body.confirm
          /\ resp' = AuthResponse("signup", email, 400,
                         [success |-> FALSE, message |-> "Passwords do not match"], "mismatch")
          /\ UNCHANGED reqs
       \/ /\ body.password = body.confirm
          /\ \/ /\ resp' = AuthError("signup", email, "fault")
                /\ UNCHANGED reqs
             \/ /\ FindOneByEmail(accounts, email) # 0
                /\ resp' = AuthResponse("signup", email, 409,
                               [success |-> FALSE, message |-> "Email already exists"], "exists")
                /\ UNCHANGED reqs
             \/ /\ FindOneByEmail(accounts, email) = 0
                /\ reqs' = [reqs EXCEPT ![i] =
                      [op |-> "signup", pc |-> "save", email |-> email,
                       newUser |-> [name |-> body.name, email |-> email,
                                    password |-> BcryptHash(body.password),
                                    role |-> body.role]]]
                /\ resp' = NoResponse

\* await new User({...}).save(): the insert, refused by the unique index when
\* the email has been stored meanwhile
SignupSave(i) ==
    LET r == reqs[i]
    IN
    /\ r.op = "signup"
    /\ r.pc = "save"
    /\ UNCHANGED <<products, profiles, orders>>
    /\ reqs' = Finish(reqs, i)
    /\ \/ /\ resp' = AuthError("signup", r.email, "fault")
          /\ UNCHANGED <<users, accounts>>
       \/ /\ ~EmailIndexAllows(accounts, r.email)
          /\ resp' = AuthError("signup", r.email, "duplicate")
          /\ UNCHANGED <<users, accounts>>
       \/ /\ EmailIndexAllows(accounts, r.email)
          /\ accounts' = Append(accounts, r.newUser)
          /\ users' = IF r.email \in DOMAIN users THEN users
                      ELSE [e \in DOMAIN users \cup {r.email} |->
                               IF e = r.email THEN [wishlist |-> <<>>, cart |-> <<>>]
                               ELSE users[e]]
          /\ resp' = AuthResponse("signup", r.email, 200,
                         [success |-> TRUE, role |-> r.newUser.role], "ok")

(* ---------------------------- POST /login ----------------------------- *)
\* the paths of UserSchema
UserSchemaPaths == {"name", "email", "password", "role", "wishlist", "cart"}

\* user.<path> on a document of the User model: the value of a path of the
\* schema, undefined (<<>>) for any other name
DocumentGet(doc, path) ==
    IF path \in UserSchemaPaths /\ path \in DOMAIN doc THEN <<doc[path]>> ELSE <<>>

\* `if (isNewUser)`
IsTruthy(value) == value # <<>> /\ value[1] = TRUE

\* POST /login up to the return of User.findOne({ email })
LoginFind(i, email, body) ==
    /\ reqs[i] = Idle
    /\ UNCHANGED <<products, users, accounts, profiles, orders>>
    /\ \/ /\ resp' = AuthError("login", email, "fault")
          /\ UNCHANGED reqs
       \/ /\ FindOneByEmail(accounts, email) = 0
          /\ resp' = AuthResponse("login", email, 404,
                         [success |-> FALSE, message |-> "User not found"], "nouser")
          /\ UNCHANGED reqs
       \/ /\ FindOneByEmail(accounts, email) # 0
          /\ reqs' = [reqs EXCEPT ![i] =
                [op |-> "login", pc |-> "compare", email |-> email, body |-> body,
                 user |-> accounts[FindOneByEmail(accounts, email)]]]
          /\ resp' = NoResponse

\* await bcrypt.compare, the role test and the answer.  isFirstLogin is not
\* a path of UserSchema: the assignment user.isFirstLogin = false marks
\* nothing as modified, so the user.save() of that branch sends no update.
LoginCompare(i) ==
    LET r == reqs[i]
        isNewUser == DocumentGet(r.user, "isFirstLogin")
    IN
    /\ r.op = "login"
    /\ r.pc = "compare"
    /\ UNCHANGED <<products, users, accounts, profiles, orders>>
    /\ reqs' = Finish(reqs, i)
    /\ IF ~BcryptCompare(r.body.password, r.user.password)
       THEN resp' = AuthResponse("login", r.email, 401,
                        [success |-> FALSE, message |-> "Invalid password"], "password")
       ELSE IF r.user.role # r.body.role
       THEN resp' = AuthResponse("login", r.email, 403,
                        [success |-> FALSE, message |-> "Incorrect role"], "role")
       ELSE resp' = AuthResponse("login", r.email, 200,
                        [success |-> TRUE, role |-> r.user.role, isNewUser |-> isNewUser],
                        IF IsTruthy(isNewUser) THEN "first" ELSE "ok")

\* the observer of the logins: the emails that have logged in successfully,
\* and whether the last successful login was the first of its email
NoLogins == [seen |-> {}, first |-> FALSE]

ObserveLogin(h) ==
    IF resp'.op = "login" /\ resp'.status = 200
    THEN [seen |-> h.seen \cup {resp'.email}, first |-> resp'.email \notin h.seen]
    ELSE h

LoginObserved == hist' = ObserveLogin(hist)

\* no account yet
InitAuth ==
    /\ products = [p \in ProductIds |-> [name |-> "Runner", price |-> 100]]
    /\ users = [e \in {} |-> [wishlist |-> <<>>, cart |-> <<>>]]
    /\ accounts = <<>>
    /\ profiles = <<>>
    /\ orders = <<>>
    /\ reqs = [i \in Slots |-> Idle]
    /\ resp = NoResponse
    /\ hist = NoLogins

AuthNext ==
    \/ \E i \in Slots, email \in Emails, body \in SignupBodies :
          SignupFind(i, email, body) /\ LoginObserved
    \/ \E i \in Slots : SignupSave(i) /\ LoginObserved
    \/ \E i \in Slots, email \in Emails, body \in LoginBodies :
          LoginFind(i, email, body) /\ LoginObserved
    \/ \E i \in Slots : LoginCompare(i) /\ LoginObserved

\* signups and logins, requests in flight together
SpecAuth == InitAuth /\ [][AuthNext]_vars

\* C14: a successful login answers isNewUser true when it is the first
\* successful login of the user and isNewUser false when it is a later one;
\* a login that fails (404, 401, 403) does not count as the first.
FirstLoginReportsNewUser ==
    (resp.op = "login" /\ resp.status = 200) => resp.body.isNewUser = <<hist.first>>

NoAdditions == [acked |-> 0]

ObserveAddition(h) ==
    IF resp'.op = "addToCart" /\ resp'.status = 200
    THEN LET i == CHOOSE j \in Slots : reqs[j].op = "addToCart" /\ reqs'[j] = Idle
         IN  [acked |-> h.acked + QuantityOrOne(reqs[i].quantity)]
    ELSE h

AdditionObserved == hist' = ObserveAddition(hist) /\ AccountsUntouched

\* the one product the racing requests add
RaceIds == {rid \in CanonicalIds : rid.oid = "p1"}

InitRace ==
    /\ products = [p \in ProductIds |-> [name |-> "Runner", price |-> 100]]
    /\ users = [e \in {"u1"} |-> [wishlist |-> <<>>, cart |-> <<>>]]
    /\ accounts = InitialAccounts
    /\ profiles = <<>>
    /\ orders = <<>>
    /\ reqs = [i \in Slots |-> Idle]
    /\ resp = NoResponse
    /\ hist = NoAdditions

CartRaceNext ==
    \/ \E i \in Slots, email \in Emails, productId \in RaceIds,
          quantity \in ConcurrentQuantities :
             PostCartFind(i, email, productId, quantity) /\ AdditionObserved
    \/ \E i \in Slots : PostCartSave(i) /\ AdditionObserved

\* POST /cart requests for one product, in flight together
SpecCartRace == InitRace /\ [][CartRaceNext]_vars

RECURSIVE CartTotal(_)
\* the sum of the quantities of the items of a cart
CartTotal(cart) ==
    IF cart = <<>> THEN 0 ELSE cart[1].quantity + CartTotal(Tail(cart))

\* C19: POST /cart requests for the same user and product that run together
\* can lose an addition but never invent one: the stored quantity is never
\* more than the sum of the amounts that were answered 200 (the witness is
\* the state in which it is less).
StoredNeverExceedsAcknowledged ==
    \A email \in DOMAIN users : CartTotal(users[email].cart) <= hist.acked

\* C19 witness: every request has been answered, the last one with 200, the
\* cart holds one item, and its quantity is less than the sum of the amounts
\* that were answered 200.
AdditionLost ==
    /\ \A i \in Slots : reqs[i] = Idle
    /\ resp.op = "addToCart"
    /\ resp.status = 200
    /\ Len(users["u1"].cart) = 1
    /\ users["u1"].cart[1].quantity < hist.acked

(* ------------------- DELETE /cart/remove, then GET /cart --------------- *)
\* The observer follows a DELETE /cart/remove of an existing user from its
\* arrival ("removing", with the stored cart) to its answer from the store
\* ("removed"), and the GET /cart of the same user that follows, to its
\* answer from the store ("reread").  Any other response resets it.
ObserveRemoval(h) ==
    LET r == reqs[1]
    IN  IF resp' = NoResponse
        THEN IF r = Idle /\ reqs'[1].op = "removeFromCart"
             THEN [stage |-> "removing", email |-> reqs'[1].email,
                   productId |-> reqs'[1].productId, before |-> users[reqs'[1].email].cart]
             ELSE IF r = Idle /\ reqs'[1].op = "getCart" /\ h.stage = "removed"
                     /\ reqs'[1].email = h.email
             THEN h
             ELSE IF r # Idle THEN h
             ELSE NoHistory
        ELSE IF resp'.op = "removeFromCart" /\ resp'.branch = "ok" /\ h.stage = "removing"
        THEN [stage |-> "removed", email |-> h.email, productId |-> h.productId,
              before |-> h.before, removed |-> resp'.body]
        ELSE IF resp'.op = "getCart" /\ resp'.branch = "ok" /\ h.stage = "removed"
        THEN [stage |-> "reread", email |-> h.email, productId |-> h.productId,
              before |-> h.before, removed |-> h.removed, read |-> resp'.body]
        ELSE NoHistory

RemovalObserved == hist' = ObserveRemoval(hist) /\ AccountsUntouched

RemoveThenReadNext ==
    \/ \E i \in Sequential, email \in Emails : GetCartFind(i, email) /\ RemovalObserved
    \/ \E i \in Sequential : GetCartPopulate(i) /\ RemovalObserved
    \/ \E i \in Sequential, email \in Emails, productId \in RequestIds,
          quantity \in RequestQuantities :
             PostCartFind(i, email, productId, quantity) /\ RemovalObserved
    \/ \E i \in Sequential : PostCartSave(i) /\ RemovalObserved
    \/ \E i \in Sequential, email \in Emails, productId \in RequestIds :
          DeleteCartFind(i, email, productId) /\ RemovalObserved
    \/ \E i \in Sequential : DeleteCartPopulate(i) /\ RemovalObserved
    \/ \E i \in Sequential : DeleteCartSave(i) /\ RemovalObserved
    \/ \E id \in ProductIds, fields \in ProductFields : PutProduct(id, fields) /\ RemovalObserved
    \/ \E id \in ProductIds : DeleteProduct(id) /\ RemovalObserved

\* the cart routes, one request at a time, with the observer of removals
SpecRemoveThenRead == Init /\ [][RemoveThenReadNext]_vars

\* C20: for an existing user, the array DELETE /cart/remove answers for
\* product P equals the array the GET /cart that follows answers, has no
\* entry for P, and has every item of the stored cart whose product still
\* exists and is not P, with its stored quantity.
RemoveThenReadAgree ==
    hist.stage = "reread" =>
        /\ hist.removed = hist.read
        /\ \A k \in 1..Len(hist.removed) :
              hist.removed[k]._id # CastObjectId(hist.productId)
        /\ \A j \in 1..Len(hist.before) :
              (/\ hist.before[j].productId \in DOMAIN products
               /\ hist.before[j].productId # CastObjectId(hist.productId))
                 => \E k \in 1..Len(hist.removed) :
                       /\ hist.removed[k]._id = hist.before[j].productId
                       /\ hist.removed[k].quantity = hist.before[j].quantity

====
